---- MODULE Spec2Model ----
(***************************************************************************)
(* A model of the Mandelbrot viewer: the ColorMap class of colormap.py and *)
(* the escape-time computation and event loop of mandelbrot.py.            *)
(*                                                                         *)
(* Floating-point numbers are modelled as fixed-point integers: the float  *)
(* r is the integer r * Scale, a product is divided by Scale and a         *)
(* quotient truncates toward zero.  Colour channels that the code keeps as *)
(* floats in [0.0, 1.0] are integers in 0..ChanOne.  Python lists and      *)
(* numpy arrays are sequences: Python index k is element k + 1.            *)
(***************************************************************************)
EXTENDS Integers, Sequences, FiniteSets, TLC

VARIABLES
    cmap,           \* the ColorMap object (a record of its attributes)
    outcome,        \* exception raised by the last constructor/mutator/draw: "none" if it returned
    lookup,         \* the last read colormap_array[index]: its index, its value or its exception
    set_black,      \* mandelbrot.py globals ...
    real_min, real_max, imag_min, imag_max,
    real_values, imag_values,
    max_itr,
    px_arr,
    mouse_down_x, mouse_down_y,
    run,
    pixel_array,    \* the frame drawn by the last pass of the main loop
    zooms,          \* number of MOUSEBUTTONUP events handled so far (bounded by MaxZooms)
    failures,       \* constructor/mutator calls that raised so far (bounded by MaxFailures)
    pc,             \* position inside calculate_mandelbrot when it is run step by step
    loc             \* calculate_mandelbrot's locals: i, j, cx, cy, itr, x, y

paletteVars == <<cmap, outcome, lookup, failures>>
hostVars == <<set_black, real_min, real_max, imag_min, imag_max, mouse_down_x,
              mouse_down_y, run, pixel_array, zooms>>
fieldVars == <<real_values, imag_values, max_itr, px_arr>>
loopVars == <<pc, loc>>
vars == <<paletteVars, hostVars, fieldVars, loopVars>>

---------------------------------------------------------------------------
(* Bounds of the model *)

Scale == 16             \* fixed-point resolution: the float r is r * Scale
num_x == 3              \* window width in pixels (1280 in the program)
num_y == 2              \* window height in pixels (800 in the program)
MaxZooms == 1           \* zooms explored in the host loop
MaxCap == 4             \* largest max_itr tried in the stepwise escape loop
CoordMax == 2           \* the stepwise loop's points lie in [-CoordMax, CoordMax]^2
MaxColors == 2          \* largest num_colors given to the palette's own operations
MaxVal == 2             \* largest min_val / max_val given to the palette's own operations
MaxFailures == 1        \* method calls that raise, per run of the palette's own operations
HostNumColors == 4      \* ColorMap's default num_colors (256 in the program)
HostMaxVal == 3         \* the max_val the host passes (255 in the program)

---------------------------------------------------------------------------
(* Arithmetic *)

Real(n) == n * Scale

\* a / b on floats, b > 0: truncates toward zero, so that -(a / b) = (-a) / b
FDiv(a, b) == IF a >= 0 THEN a \div b ELSE -((-a) \div b)

\* a * b on two fixed-point floats
FMul(a, b) == FDiv(a * b, Scale)

\* Python's round(n / d), d > 0, n >= 0: to nearest, ties to even
PyRound(n, d) ==
    LET q == n \div d
        r == n % d
    IN  IF 2 * r < d THEN q
        ELSE IF 2 * r > d THEN q + 1
        ELSE IF q % 2 = 0 THEN q ELSE q + 1

\* Linspace with the bug of leaving the endpoint out (endpoint=False)
LinspaceOpenEnd(start, stop, num) ==
    [k \in 1..num |-> start + (k - 1) * FDiv(stop - start, num)]

\* np.linspace(start, stop, num) for num >= 0: step = (stop - start) / (num - 1),
\* y = arange(num) * step + start, and the last element is set to stop exactly.
Linspace(start, stop, num) ==
    [k \in 1..num |->
        IF num = 1 THEN start
        ELSE IF k = num THEN stop
        ELSE start + (k - 1) * FDiv(stop - start, num - 1)]

\* Python's list index: 0 when seq[idx] raises IndexError, else the element's
\* position in the sequence; a negative index counts from the end.
PyIndex(seq, idx) ==
    IF idx >= 0 /\ idx < Len(seq) THEN idx + 1
    ELSE IF idx < 0 /\ idx >= -Len(seq) THEN Len(seq) + idx + 1
    ELSE 0

---------------------------------------------------------------------------
(* matplotlib, as colormap.py uses it *)

names_to_cycle ==
    <<"viridis", "plasma", "magma", "inferno", "cividis", "spring",
      "summer", "autumn", "winter", "hot", "twilight">>

CycleNames == {names_to_cycle[k] : k \in 1..Len(names_to_cycle)}

\* plt.colormaps(): the cycle list's names and one more registered name
names_all == CycleNames \cup {"jet"}

ArrayTypes == {"rgb_u8", "rgba_u8", "rgb_f", "rgba_f"}

ChanOne == 1000         \* the float channel value 1.0
LutN == 256             \* entries of a matplotlib colormap's lookup table

\* first and last (r, g, b) of each colormap's lookup table, in 1/ChanOne
LutFirst(name) ==
    CASE name = "viridis"  -> <<267, 5, 329>>
      [] name = "plasma"   -> <<50, 30, 528>>
      [] name = "magma"    -> <<1, 0, 14>>
      [] name = "inferno"  -> <<1, 0, 14>>
      [] name = "cividis"  -> <<0, 135, 305>>
      [] name = "spring"   -> <<1000, 0, 1000>>
      [] name = "summer"   -> <<0, 500, 400>>
      [] name = "autumn"   -> <<1000, 0, 0>>
      [] name = "winter"   -> <<0, 0, 1000>>
      [] name = "hot"      -> <<42, 0, 0>>
      [] name = "twilight" -> <<886, 850, 888>>
      [] OTHER             -> <<0, 0, 500>>

LutLast(name) ==
    CASE name = "viridis"  -> <<993, 906, 144>>
      [] name = "plasma"   -> <<940, 975, 131>>
      [] name = "magma"    -> <<987, 991, 750>>
      [] name = "inferno"  -> <<988, 998, 645>>
      [] name = "cividis"  -> <<996, 909, 218>>
      [] name = "spring"   -> <<1000, 1000, 0>>
      [] name = "summer"   -> <<1000, 1000, 400>>
      [] name = "autumn"   -> <<1000, 1000, 0>>
      [] name = "winter"   -> <<0, 1000, 500>>
      [] name = "hot"      -> <<1000, 1000, 1000>>
      [] name = "twilight" -> <<886, 850, 886>>
      [] OTHER             -> <<500, 0, 0>>

\* entry k (0 .. LutN - 1) of the colormap's table: (r, g, b, a) floats
Lut(name, k) ==
    LET a == LutFirst(name)
        b == LutLast(name)
    IN  <<a[1] + FDiv((b[1] - a[1]) * k, LutN - 1),
          a[2] + FDiv((b[2] - a[2]) * k, LutN - 1),
          a[3] + FDiv((b[3] - a[3]) * k, LutN - 1),
          ChanOne>>

\* Normalize.__call__ raises ValueError when vmin > vmax
NormRaises(sm) == sm.vmin > sm.vmax

\* scalarMap.to_rgba(val) when it does not raise: normalise val to [0, 1]
\* (0 when vmin = vmax), take table entry int(x * N) clipped to 0 .. N - 1
to_rgba(sm, val) ==
    LET k == IF sm.vmin = sm.vmax THEN 0
             ELSE FDiv((val - sm.vmin) * LutN, sm.vmax - sm.vmin)
        kc == IF k < 0 THEN 0 ELSE IF k > LutN - 1 THEN LutN - 1 ELSE k
    IN  Lut(sm.cmap, kc)

---------------------------------------------------------------------------
(* class ColorMap *)

get_rgb_u8(self, val) ==
    LET c == to_rgba(self.scalarMap, val)
    IN  <<PyRound(255 * c[1], ChanOne), PyRound(255 * c[2], ChanOne),
          PyRound(255 * c[3], ChanOne)>>

get_rgba_u8(self, val) ==
    LET c == to_rgba(self.scalarMap, val)
    IN  <<PyRound(255 * c[1], ChanOne), PyRound(255 * c[2], ChanOne),
          PyRound(255 * c[3], ChanOne), c[4]>>

get_rgb_f(self, val) ==
    LET c == to_rgba(self.scalarMap, val)
    IN  <<c[1], c[2], c[3]>>

get_rgba_f(self, val) == to_rgba(self.scalarMap, val)

\* the get_* method initialize() picks for an array_type
Sample(self, ar_type, val) ==
    CASE ar_type = "rgb_u8"  -> get_rgb_u8(self, val)
      [] ar_type = "rgba_u8" -> get_rgba_u8(self, val)
      [] ar_type = "rgb_f"   -> get_rgb_f(self, val)
      [] OTHER               -> get_rgba_f(self, val)

\* The loop of initialize() over vals: no branch appends for an array_type
\* outside the four, so the array stays empty.
FillArray(self, vals) ==
    IF self.array_type \in ArrayTypes
    THEN [k \in 1..Len(vals) |-> Sample(self, self.array_type, vals[k])]
    ELSE <<>>

\* initialize(): the object it leaves and the exception it raises, if any.
\* plt.get_cmap raises ValueError for an unregistered name, np.linspace for a
\* negative num, and the first to_rgba when min_value > max_value.
initialize(self) ==
    IF self.cmap_name \notin names_all
    THEN [obj |-> self, exc |-> "ValueError"]
    ELSE
      LET s1 == [self EXCEPT !.scalarMap = [cmap |-> self.cmap_name,
                                            vmin |-> self.min_value,
                                            vmax |-> self.max_value]]
      IN  IF self.number_colors < 0
          THEN [obj |-> s1, exc |-> "ValueError"]
          ELSE
            LET vals == Linspace(self.min_value, self.max_value, self.number_colors)
                s2 == [s1 EXCEPT !.colormap_array = <<>>]
            IN  IF self.array_type \in ArrayTypes /\ Len(vals) > 0
                   /\ NormRaises(s1.scalarMap)
                THEN [obj |-> s2, exc |-> "ValueError"]
                ELSE [obj |-> [s2 EXCEPT !.colormap_array = FillArray(s1, vals)],
                      exc |-> "none"]

\* ColorMap(min_val, max_val, cmap_name, num_colors, array_type)
ColorMap(min_val, max_val, name, num_colors, ar_type) ==
    initialize([current_cycle_number |-> 0,
                cmap_name |-> name,
                min_value |-> min_val,
                max_value |-> max_val,
                number_colors |-> num_colors,
                colormap_array |-> <<>>,
                array_type |-> ar_type,
                scalarMap |-> [cmap |-> name, vmin |-> min_val, vmax |-> max_val]])

\* cycle_colormap with the bug of wrapping one entry early
cycle_colormap_short_wrap(self) ==
    LET n == (self.current_cycle_number + 1) % (Len(names_to_cycle) - 1)
    IN  initialize([self EXCEPT !.current_cycle_number = n,
                                !.cmap_name = names_to_cycle[n + 1]])

cycle_colormap(self) ==
    LET n == (self.current_cycle_number + 1) % Len(names_to_cycle)
    IN  initialize([self EXCEPT !.current_cycle_number = n,
                                !.cmap_name = names_to_cycle[n + 1]])

set_min_max_vals(self, min_val, max_val) ==
    initialize([self EXCEPT !.min_value = min_val, !.max_value = max_val])

set_colormap_name(self, name) ==
    initialize([self EXCEPT !.cmap_name = name])

set_array_type(self, ar_type) ==
    initialize([self EXCEPT !.array_type = ar_type])

set_number_colors(self, num_cols) ==
    initialize([self EXCEPT !.number_colors = num_cols])

\* colormap_array[index], as the draw loop and the docstring read the table
table_lookup(self, index) ==
    LET p == PyIndex(self.colormap_array, index)
    IN  IF p = 0
        THEN [index |-> index, value |-> <<>>, exc |-> "IndexError"]
        ELSE [index |-> index, value |-> self.colormap_array[p], exc |-> "none"]

NoLookup == [index |-> 0, value |-> <<>>, exc |-> "unread"]

---------------------------------------------------------------------------
(* State of the parts a specification does not run *)

NoLoc == [i |-> 0, j |-> 0, cx |-> 0, cy |-> 0, itr |-> 0, x |-> 0, y |-> 0]

HostIdle ==
    /\ set_black = FALSE
    /\ real_min = 0 /\ real_max = 0 /\ imag_min = 0 /\ imag_max = 0
    /\ mouse_down_x = 0 /\ mouse_down_y = 0
    /\ run = FALSE
    /\ pixel_array = <<>>
    /\ zooms = 0

FieldIdle ==
    /\ real_values = <<>> /\ imag_values = <<>>
    /\ max_itr = 0
    /\ px_arr = <<>>

LoopIdle == pc = "idle" /\ loc = NoLoc

---------------------------------------------------------------------------
(* The palette on its own: a ColorMap object and calls of its methods *)

NameInputs == {"viridis", "hot", "jet", "unknown_name_xyz"}
ValInputs == {Real(0), Real(MaxVal)}
NumInputs == -1..MaxColors
TypeInputs == ArrayTypes \cup {"bogus"}
IndexInputs == -(MaxColors + 1)..(MaxColors + 1)

\* a constructor call that returns an object
PaletteInit ==
    /\ \E a \in ValInputs, b \in ValInputs, name \in NameInputs,
          n \in NumInputs, t \in TypeInputs :
          /\ ColorMap(a, b, name, n, t).exc = "none"
          /\ cmap = ColorMap(a, b, name, n, t).obj
    /\ outcome = "none"
    /\ lookup = NoLookup
    /\ failures = 0
    /\ HostIdle /\ FieldIdle /\ LoopIdle

\* a method call on cmap that ended as r says
Called(r) ==
    /\ r.exc # "none" => failures < MaxFailures
    /\ failures' = IF r.exc = "none" THEN failures ELSE failures + 1
    /\ cmap' = r.obj
    /\ outcome' = r.exc
    /\ lookup' = NoLookup
    /\ UNCHANGED <<hostVars, fieldVars, loopVars>>

SetColormapName(name) == Called(set_colormap_name(cmap, name))

CycleColormap == Called(cycle_colormap(cmap))

SetMinMaxVals(a, b) == Called(set_min_max_vals(cmap, a, b))

SetArrayType(t) == Called(set_array_type(cmap, t))

SetNumberColors(n) == Called(set_number_colors(cmap, n))

TableLookup(index) ==
    /\ lookup' = table_lookup(cmap, index)
    /\ UNCHANGED <<cmap, outcome, failures, hostVars, fieldVars, loopVars>>

PaletteNext ==
    \/ \E name \in NameInputs : SetColormapName(name)
    \/ CycleColormap
    \/ \E a \in ValInputs, b \in ValInputs : SetMinMaxVals(a, b)
    \/ \E t \in TypeInputs : SetArrayType(t)
    \/ \E n \in NumInputs : SetNumberColors(n)
    \/ \E index \in IndexInputs : TableLookup(index)

SpecPalette == PaletteInit /\ [][PaletteNext]_vars

---------------------------------------------------------------------------
(* calculate_mandelbrot *)

\* LoopCond with the bug of capping at max_itr instead of max_itr - 1
LoopCondNoOffset(itr, x, y, cap) ==
    itr < cap /\ FMul(x, x) + FMul(y, y) <= Real(4)

\* LoopCond with the bug of comparing the squared magnitude with 4 squared
LoopCondWideEscape(itr, x, y, cap) ==
    itr < cap - 1 /\ FMul(x, x) + FMul(y, y) <= Real(16)

\* the while loop's condition: itr < max_itr-1 and x*x + y*y <= 4
LoopCond(itr, x, y, cap) ==
    itr < cap - 1 /\ FMul(x, x) + FMul(y, y) <= Real(4)

\* newx = x*x - y*y + cx
StepX(x, y, cx) == FMul(x, x) - FMul(y, y) + cx

\* y = 2*x*y + cy
StepY(x, y, cy) == FMul(2 * x, y) + cy

\* the while loop run to its end: the itr it leaves
RECURSIVE Iterate(_, _, _, _, _, _)
Iterate(itr, x, y, cx, cy, cap) ==
    IF LoopCond(itr, x, y, cap)
    THEN Iterate(itr + 1, StepX(x, y, cx), StepY(x, y, cy), cx, cy, cap)
    ELSE itr

\* calculate_mandelbrot() run to its end: the px_arr it leaves
calculate_mandelbrot(rv, iv, cap) ==
    [i \in 1..Len(rv) |-> [j \in 1..Len(iv) |-> Iterate(0, 0, 0, rv[i], iv[j], cap)]]

\* np.zeros((w, h))
Zeros(w, h) == [i \in 1..w |-> [j \in 1..h |-> 0]]

---------------------------------------------------------------------------
(* calculate_mandelbrot step by step, over grids and iteration caps drawn *)
(* from bounded sets                                                       *)

Coords == {FDiv(k * Scale, 2) : k \in (-2 * CoordMax)..(2 * CoordMax)}

EscapeInit ==
    /\ max_itr \in 1..MaxCap
    /\ \E a \in Coords, b \in Coords : real_values = Linspace(a, b, num_x)
    /\ \E c \in Coords : imag_values = Linspace(c, -c, num_y)
    /\ px_arr = Zeros(num_x, num_y)
    /\ pc = "for"
    /\ loc = NoLoc
    /\ cmap = ColorMap(Real(0), Real(HostMaxVal), "viridis", HostNumColors, "rgb_u8").obj
    /\ outcome = "none"
    /\ lookup = NoLookup
    /\ failures = 0
    /\ HostIdle

\* lines 106-110: take pixel (i, j)
ForPixel ==
    /\ pc = "for"
    /\ loc' = [loc EXCEPT !.cx = real_values[loc.i + 1],
                          !.cy = imag_values[loc.j + 1],
                          !.itr = 0, !.x = 0, !.y = 0]
    /\ pc' = "while"
    /\ UNCHANGED <<paletteVars, hostVars, fieldVars>>

\* lines 111-117: one pass of the while loop's body
WhileBody ==
    /\ pc = "while"
    /\ LoopCond(loc.itr, loc.x, loc.y, max_itr)
    /\ loc' = [loc EXCEPT !.itr = loc.itr + 1,
                          !.x = StepX(loc.x, loc.y, loc.cx),
                          !.y = StepY(loc.x, loc.y, loc.cy)]
    /\ UNCHANGED <<pc, paletteVars, hostVars, fieldVars>>

\* line 118, then the for loops' next pixel
WhileExit ==
    /\ pc = "while"
    /\ ~LoopCond(loc.itr, loc.x, loc.y, max_itr)
    /\ px_arr' = [px_arr EXCEPT ![loc.i + 1][loc.j + 1] = loc.itr]
    /\ IF loc.j + 1 < Len(imag_values)
       THEN loc' = [loc EXCEPT !.j = loc.j + 1] /\ pc' = "for"
       ELSE IF loc.i + 1 < Len(real_values)
       THEN loc' = [loc EXCEPT !.i = loc.i + 1, !.j = 0] /\ pc' = "for"
       ELSE loc' = loc /\ pc' = "done"
    /\ UNCHANGED <<paletteVars, hostVars, real_values, imag_values, max_itr>>

EscapeNext == ForPixel \/ WhileBody \/ WhileExit

SpecEscape == EscapeInit /\ [][EscapeNext]_vars

\* the stepwise loop and the operator compute the same array
StepwiseAgrees ==
    pc = "done" => px_arr = calculate_mandelbrot(real_values, imag_values, max_itr)

---------------------------------------------------------------------------
(* mandelbrot.py: the globals and the main loop.  A step is one pass of    *)
(* `while run` that handles one event (or none) and then draws the frame;  *)
(* drawing changes nothing the handlers read, so a pass that handles       *)
(* several events ends where the passes handling them one by one end.      *)
(* mouse_up_x and mouse_up_y are written and read only inside the          *)
(* MOUSEBUTTONUP handler and are the step's inputs.                        *)

\* HostMaxItr with the bug of one iteration more than the table has entries
HostMaxItrPlusOne(cm) == cm.number_colors + 1

\* line 65: max_itr = cmap.number_colors
HostMaxItr(cm) == cm.number_colors

\* cmap.colormap_array[cmap.number_colors - 1] = color
SetLast(cm, color) ==
    LET p == PyIndex(cm.colormap_array, cm.number_colors - 1)
    IN  IF p = 0 THEN cm ELSE [cm EXCEPT !.colormap_array[p] = color]

\* on_key_c with the bug of not re-applying the black override after the cycle
on_key_c_no_reapply(cm, black) == cycle_colormap(cm).obj

\* the K_c handler: the cmap it leaves
on_key_c(cm, black) ==
    LET c == cycle_colormap(cm).obj
    IN  IF black THEN SetLast(c, <<0, 0, 0>>) ELSE c

\* the K_b handler: the cmap it leaves, black being the new set_black
on_key_b(cm, black) ==
    IF black THEN SetLast(cm, <<0, 0, 0>>)
    ELSE SetLast(cm, get_rgb_u8(cm, cm.max_value))

\* the draw loop: pixel_array[i,j] = cmap.colormap_array[int(px_arr[i,j])]
Draw(px, arr) ==
    IF \A i \in 1..Len(px) : \A j \in 1..Len(px[i]) : PyIndex(arr, px[i][j]) # 0
    THEN [frame |-> [i \in 1..Len(px) |->
                        [j \in 1..Len(px[i]) |-> arr[PyIndex(arr, px[i][j])]]],
          exc |-> "none"]
    ELSE [frame |-> <<>>, exc |-> "IndexError"]

\* the rest of a pass once its event is handled: draw with the new cmap and
\* px_arr; an uncaught IndexError ends the program
DrawFrame(cm, px, keep_running) ==
    LET d == Draw(px, cm.colormap_array)
    IN  /\ pixel_array' = IF d.exc = "none" THEN d.frame ELSE pixel_array
        /\ outcome' = d.exc
        /\ run' = (keep_running /\ d.exc = "none")

HostInit ==
    /\ cmap = ColorMap(Real(0), Real(HostMaxVal), "viridis", HostNumColors, "rgb_u8").obj
    /\ outcome = "none"
    /\ lookup = NoLookup
    /\ failures = 0
    /\ real_min = Real(-2)
    /\ real_max = Real(1)
    /\ imag_max = FDiv(num_y * (real_max - real_min), 2 * num_x)
    /\ imag_min = -imag_max
    /\ real_values = Linspace(real_min, real_max, num_x)
    /\ imag_values = Linspace(imag_max, imag_min, num_y)
    /\ set_black = FALSE
    /\ max_itr = HostMaxItr(cmap)
    /\ px_arr = calculate_mandelbrot(real_values, imag_values, max_itr)
    /\ mouse_down_x = 0
    /\ mouse_down_y = 0
    /\ run = TRUE
    /\ pixel_array = <<>>
    /\ zooms = 0
    /\ LoopIdle

viewport == <<real_min, real_max, imag_min, imag_max, real_values, imag_values,
              max_itr, px_arr, zooms>>

NoEvent ==
    /\ run
    /\ DrawFrame(cmap, px_arr, TRUE)
    /\ UNCHANGED <<cmap, lookup, failures, set_black, viewport, mouse_down_x,
                   mouse_down_y, loopVars>>

Quit ==
    /\ run
    /\ DrawFrame(cmap, px_arr, FALSE)
    /\ UNCHANGED <<cmap, lookup, failures, set_black, viewport, mouse_down_x,
                   mouse_down_y, loopVars>>

\* Once MaxZooms zooms are done no handler reads mouse_down_x and mouse_down_y
\* again, and the model leaves further presses out.
MouseButtonDown(pos_x, pos_y) ==
    /\ run
    /\ zooms < MaxZooms
    /\ mouse_down_x' = pos_x
    /\ mouse_down_y' = pos_y
    /\ DrawFrame(cmap, px_arr, TRUE)
    /\ UNCHANGED <<cmap, lookup, failures, set_black, viewport, loopVars>>

MouseButtonUp(mouse_up_x, mouse_up_y) ==
    /\ run
    /\ zooms < MaxZooms
    /\ zooms' = zooms + 1
    /\ real_min' = real_values[mouse_down_x + 1]
    /\ real_max' = real_values[mouse_up_x + 1]
    /\ imag_max' = imag_values[mouse_down_y + 1]
    /\ imag_min' = imag_max' - FDiv(num_y * (real_max' - real_min'), num_x)
    /\ real_values' = Linspace(real_min', real_max', num_x)
    /\ imag_values' = Linspace(imag_max', imag_min', num_y)
    /\ px_arr' = calculate_mandelbrot(real_values', imag_values', max_itr)
    /\ DrawFrame(cmap, px_arr', TRUE)
    /\ UNCHANGED <<cmap, lookup, failures, set_black, max_itr, mouse_down_x,
                   mouse_down_y, loopVars>>

KeyC ==
    /\ run
    /\ cmap' = on_key_c(cmap, set_black)
    /\ DrawFrame(cmap', px_arr, TRUE)
    /\ UNCHANGED <<lookup, failures, set_black, viewport, mouse_down_x,
                   mouse_down_y, loopVars>>

KeyB ==
    /\ run
    /\ set_black' = ~set_black
    /\ cmap' = on_key_b(cmap, set_black')
    /\ DrawFrame(cmap', px_arr, TRUE)
    /\ UNCHANGED <<lookup, failures, viewport, mouse_down_x, mouse_down_y, loopVars>>

HostNext ==
    \/ NoEvent
    \/ Quit
    \/ \E pos_x \in 0..(num_x - 1), pos_y \in 0..(num_y - 1) : MouseButtonDown(pos_x, pos_y)
    \/ \E pos_x \in 0..(num_x - 1), pos_y \in 0..(num_y - 1) : MouseButtonUp(pos_x, pos_y)
    \/ KeyC
    \/ KeyB

SpecHost == HostInit /\ [][HostNext]_vars

---------------------------------------------------------------------------
(* Properties of calculate_mandelbrot, under SpecEscape *)

AtPoint(i, j, re, im) == real_values[i] = Real(re) /\ imag_values[j] = Real(im)

Pixels == {<<i, j>> : i \in 1..Len(real_values), j \in 1..Len(imag_values)}

\* C1: for every cap max_itr >= 1 the count stored at a pixel whose point is
\* the origin is max_itr - 1, and while that pixel's loop runs the escape
\* test x*x + y*y <= 4 is true, so only the cap ends the loop.
C1_OriginRunsToCap ==
    /\ pc = "done" =>
         \A p \in Pixels : AtPoint(p[1], p[2], 0, 0) => px_arr[p[1]][p[2]] = max_itr - 1
    /\ (pc = "while" /\ loc.cx = 0 /\ loc.cy = 0) =>
         /\ FMul(loc.x, loc.x) + FMul(loc.y, loc.y) <= Real(4)
         /\ (~LoopCond(loc.itr, loc.x, loc.y, max_itr) => loc.itr = max_itr - 1)

C1_Witness ==
    /\ pc = "done"
    /\ max_itr = MaxCap
    /\ AtPoint(1, 1, 0, 0)
    /\ px_arr[1][1] = MaxCap - 1

\* C8 as stated: for every cap max_itr >= 1 the count stored for the point
\* (2, 2) is strictly less than max_itr - 1.
C8_Original ==
    pc = "done" =>
      \A p \in Pixels : AtPoint(p[1], p[2], 2, 2) => px_arr[p[1]][p[2]] < max_itr - 1

\* C8 amended: the count stored for (2, 2) is 0 when max_itr = 1 and 1
\* otherwise, which is strictly less than max_itr - 1 exactly when max_itr >= 3.
C8_Amended ==
    pc = "done" =>
      \A p \in Pixels : AtPoint(p[1], p[2], 2, 2) =>
        /\ px_arr[p[1]][p[2]] = (IF max_itr = 1 THEN 0 ELSE 1)
        /\ max_itr >= 3 => px_arr[p[1]][p[2]] < max_itr - 1

C8_Witness ==
    /\ pc = "done"
    /\ max_itr >= 3
    /\ AtPoint(1, 1, 2, 2)
    /\ px_arr[1][1] = 1

---------------------------------------------------------------------------
(* Properties of the palette, under SpecPalette *)

\* cycle_colormap() called k times in a row
RECURSIVE CycleTimes(_, _)
CycleTimes(self, k) ==
    IF k = 0 THEN self ELSE CycleTimes(cycle_colormap(self).obj, k - 1)

InStep(self) ==
    self.cmap_name = names_to_cycle[self.current_cycle_number + 1]

\* C2 as stated: from any reachable palette state, Len(names_to_cycle) calls
\* of cycle_colormap() in a row leave cmap_name as it was before them.
C2_Original ==
    CycleTimes(cmap, Len(names_to_cycle)).cmap_name = cmap.cmap_name

\* C2 amended: Len(names_to_cycle) calls of cycle_colormap() in a row leave
\* current_cycle_number as it was and cmap_name equal to
\* names_to_cycle[current_cycle_number]; so cmap_name is as it was before
\* them when it was the cycle list's entry at current_cycle_number.
C2_Amended ==
    LET after == CycleTimes(cmap, Len(names_to_cycle))
    IN  /\ after.current_cycle_number = cmap.current_cycle_number
        /\ InStep(after)
        /\ InStep(cmap) => after.cmap_name = cmap.cmap_name

C2_Witness ==
    /\ cmap.current_cycle_number = Len(names_to_cycle) - 1
    /\ InStep(cmap)
    /\ outcome = "none"
    /\ CycleTimes(cmap, 1).current_cycle_number = 0

\* C3 as stated: set_colormap_name with an unsupported name raises and leaves
\* colormap_array and cmap_name as they were.
C3_Original ==
    [][\A name \in NameInputs \ names_all :
          SetColormapName(name) =>
            /\ outcome' = "ValueError"
            /\ cmap'.colormap_array = cmap.colormap_array
            /\ cmap'.cmap_name = cmap.cmap_name]_vars

\* C4 as stated: after construction and after every mutator that returns
\* normally, colormap_array has number_colors entries and every index in
\* [0, number_colors) holds a colour.
C4_Original ==
    outcome = "none" =>
      /\ Len(cmap.colormap_array) = cmap.number_colors
      /\ \A k \in 0..(cmap.number_colors - 1) :
            /\ table_lookup(cmap, k).exc = "none"
            /\ table_lookup(cmap, k).value # <<>>

\* C6 as stated: a table read returns colormap_array[index] for an index in
\* [0, table length) and raises IndexError, returning no colour, for every
\* other index, the negative ones included.
C6_Original ==
    lookup.exc # "unread" =>
      IF 0 <= lookup.index /\ lookup.index < Len(cmap.colormap_array)
      THEN lookup.exc = "none" /\ lookup.value = cmap.colormap_array[lookup.index + 1]
      ELSE lookup.exc = "IndexError" /\ lookup.value = <<>>

Rebuilt == outcome = "none" /\ cmap.array_type \in ArrayTypes

---------------------------------------------------------------------------
(* Properties of the main loop, under SpecHost *)

\* C5 as stated: calculate_mandelbrot only ever runs with real_min < real_max
\* and imag_min < imag_max; a drag with release x <= click x never reaches it.
C5_Original == real_min < real_max /\ imag_min < imag_max

LastEntry == cmap.colormap_array[cmap.number_colors]

\* C9: at every frame draw, after any 'b' and 'c' key presses, the last table
\* entry is (0, 0, 0) exactly when set_black is true and is otherwise
\* get_rgb_u8(max_value) of the current gradient, the cycle list's entry at
\* current_cycle_number.
C9_OverrideFollowsSetBlack ==
    /\ Len(cmap.colormap_array) = cmap.number_colors
    /\ cmap.scalarMap.cmap = cmap.cmap_name
    /\ InStep(cmap)
    /\ (LastEntry = <<0, 0, 0>>) <=> set_black
    /\ ~set_black => LastEntry = get_rgb_u8(cmap, cmap.max_value)
    /\ pixel_array # <<>> =>
         \A i \in 1..num_x : \A j \in 1..num_y :
            px_arr[i][j] = cmap.number_colors - 1 => pixel_array[i][j] = LastEntry

C9_Witness ==
    /\ set_black
    /\ cmap.current_cycle_number > 0
    /\ LastEntry = <<0, 0, 0>>
    /\ \E i \in 1..num_x : \E j \in 1..num_y :
          px_arr[i][j] = cmap.number_colors - 1 /\ pixel_array[i][j] = <<0, 0, 0>>

\* C10: at every frame draw, after any zooms and key presses, every entry of
\* px_arr is an integer in [0, max_itr - 1] and a valid index into
\* colormap_array, and the draw loop's lookups raise no IndexError.
C10_CountsIndexTable ==
    /\ \A i \in 1..num_x : \A j \in 1..num_y :
          /\ px_arr[i][j] \in 0..(max_itr - 1)
          /\ px_arr[i][j] < Len(cmap.colormap_array)
    /\ outcome = "none"
    /\ pixel_array # <<>> =>
         \A i \in 1..num_x : \A j \in 1..num_y :
            pixel_array[i][j] = cmap.colormap_array[px_arr[i][j] + 1]

C10_Witness ==
    /\ zooms >= 1
    /\ cmap.current_cycle_number > 0
    /\ pixel_array # <<>>
    /\ \E i \in 1..num_x : \E j \in 1..num_y : px_arr[i][j] = max_itr - 1
    /\ \E i \in 1..num_x : \E j \in 1..num_y : px_arr[i][j] < max_itr - 1

====
